---- MODULE Spec2Model ----
(***************************************************************************)
(* Model of src/bot.py: a calendar poller that registers one delayed       *)
(* notification job per high-impact event and delivers it LEAD_MINUTES     *)
(* before the event.                                                       *)
(*                                                                         *)
(* Time is counted in whole minutes since local midnight of one day.       *)
(* A row of the calendar page is the record of its cell texts as           *)
(* _cell_text / _row_has_high_impact return them.                          *)
(*                                                                         *)
(* Specifications:                                                         *)
(*   Spec       the process as written: startup check, main()              *)
(*   CycleSpec  poll_and_schedule() called any number of times, one call   *)
(*              after the other, before and after scheduler.start()        *)
(*   IdemSpec   poll_and_schedule() called repeatedly while the upstream   *)
(*              listing stays the same and every fetch succeeds            *)
(*   FetchSpec  fetch_events() applied to one listing                      *)
(*   OverlapSpec  as IdemSpec, with a second poll_and_schedule() begun     *)
(*              while the first awaits its fetch                           *)
(*   FairSpec, FairCycleSpec  the same with the clock and the scheduler's  *)
(*              timer weakly fair                                          *)
(* CURRENCIES is the default list or empty in every specification.         *)
(***************************************************************************)
EXTENDS Integers, Sequences, FiniteSets, TLC

\* ---------------------------------------------------------------- bounds
MaxRows == 2
MaxTime == 4
MaxPolls == 2

\* ------------------------------------------------------- configuration
LEAD_MINUTES == 15
POLL_INTERVAL_MIN == 10
\* CURRENCIES when the environment does not set it, and the lists the
\* environment can make of it: the default, or none at all
CURRENCIES_DEFAULT == {"USD", "GBP", "EUR"}
CurrencyConfigs == {CURRENCIES_DEFAULT, {}}
misfire_grace_time == 1
None == -1
Placeholder == "--"

\* ------------------------------------------------------------- strings
\* str.upper() / str.lower() on the cell texts the model uses
upper(s) ==
  CASE s = "usd" -> "USD"
    [] s = "cpi" -> "CPI"
    [] OTHER -> s

lower(s) ==
  CASE s = "USD" -> "usd"
    [] s = "JPY" -> "jpy"
    [] s = "CPI" -> "cpi"
    [] OTHER -> s

\* datetime.isoformat() of an instant of the day, then .lower()
isoformat(dt) == <<"t", dt \div 60, dt % 60>>

\* _parse_time_to_dt(time_str, base_date=today): the instant, or None for a
\* text that is no clock time
parse_time_to_dt(time_str) ==
  CASE time_str = "12:17am" -> 17
    [] time_str = "12:18am" -> 18
    [] OTHER -> None

\* ------------------------------------------------------------- listings
Row(i, c, t, tm, f) ==
  [impact |-> i, currency |-> c, title |-> t, time |-> tm,
   forecast |-> f, previous |-> "0.2%"]

GoodRows ==
  { Row(TRUE, "USD", "CPI", "12:17am", "0.3%"),
    Row(TRUE, "USD", "CPI", "12:17am", ""),
    Row(TRUE, "usd", "CPI", "12:17am", "0.3%"),
    Row(TRUE, "USD", "CPI", "12:18am", "0.3%") }

BadRows ==
  { Row(FALSE, "USD", "CPI", "12:17am", "0.3%"),
    Row(TRUE, "JPY", "CPI", "12:17am", "0.3%"),
    Row(TRUE, "", "CPI", "12:17am", "0.3%"),
    Row(TRUE, "USD", "", "12:17am", "0.3%"),
    Row(TRUE, "USD", "CPI", "All Day", "0.3%") }

Rows == GoodRows \cup BadRows

Listings == UNION {[1..n -> Rows] : n \in 0..MaxRows}

\* ------------------------------------------------------------ fetch_events
event_id_CaseSensitive(event_dt, currency, title) ==
  <<isoformat(event_dt), currency, lower(title)>>

event_id(event_dt, currency, title) ==
  <<isoformat(event_dt), lower(currency), lower(title)>>

EventOf(row) ==
  LET event_dt == parse_time_to_dt(row.time) IN
  [id |-> event_id(event_dt, row.currency, row.title),
   currency |-> upper(row.currency),
   title |-> row.title,
   event_dt |-> event_dt,
   forecast |-> IF row.forecast = "" THEN Placeholder ELSE row.forecast,
   previous |-> IF row.previous = "" THEN Placeholder ELSE row.previous]

RowStep_AnyCurrency(currencies, acc, row) ==
  IF acc.raised THEN acc
  ELSE IF ~row.impact THEN acc
  ELSE IF row.title = "" THEN acc
  ELSE IF parse_time_to_dt(row.time) = None THEN acc
  ELSE [acc EXCEPT !.events = Append(@, EventOf(row))]

RowStep_RaisesOnBadTime(currencies, acc, row) ==
  IF acc.raised THEN acc
  ELSE IF ~row.impact THEN acc
  ELSE IF row.currency = "" \/ upper(row.currency) \notin currencies THEN acc
  ELSE IF row.title = "" THEN acc
  ELSE IF parse_time_to_dt(row.time) = None THEN [acc EXCEPT !.raised = TRUE]
  ELSE [acc EXCEPT !.events = Append(@, EventOf(row))]

\* one pass of the row loop with CURRENCIES = currencies; the result is
\* [raised, events]
RowStep(currencies, acc, row) ==
  IF acc.raised THEN acc
  ELSE IF ~row.impact THEN acc
  ELSE IF row.currency = "" \/ upper(row.currency) \notin currencies THEN acc
  ELSE IF row.title = "" THEN acc
  ELSE IF parse_time_to_dt(row.time) = None THEN acc
  ELSE [acc EXCEPT !.events = Append(@, EventOf(row))]

RECURSIVE RowLoop(_, _, _)
RowLoop(currencies, acc, rows) ==
  IF rows = <<>> THEN acc
  ELSE RowLoop(currencies, RowStep(currencies, acc, Head(rows)), Tail(rows))

\* ------------------------------------------------------------------ state
VARIABLES
  CURRENCIES,     \* the tracked currencies read from the environment
  now,            \* datetime.now(tz), minutes of the day
  configured,     \* API_TOKEN and CHAT_ID are both set
  mainpc,         \* position of the process: startup check and main()
  started,        \* scheduler.start() has run
  SCHEDULED_IDS,  \* the identity index
  jobs,           \* the scheduler's jobs (pending list, then job store)
  polls,          \* each poll_and_schedule coroutine: position, fetched
                  \* events, how its last call ended
  nPolls,         \* poll_and_schedule calls begun
  added,          \* every scheduler.add_job(notify, ...) call that registered
  skipped,        \* every event the scheduling loop passed over, and why
  calls,          \* every notify(event) invocation and its send_message state
  missed,         \* jobs the scheduler dropped as misfired
  pinned,         \* what the calendar source serves during the run
  parsed          \* return value of fetch_events under FetchSpec

vars == <<CURRENCIES, now, configured, mainpc, started, SCHEDULED_IDS, jobs,
          polls, nPolls, added, skipped, calls, missed, pinned, parsed>>

Coroutines == {"main", "job"}

\* fetch_events() when the source serves listing
fetch_events(listing) ==
  RowLoop(CURRENCIES, [raised |-> FALSE, events |-> <<>>], listing)

NoEvent ==
  [id |-> <<>>, currency |-> "", title |-> "", event_dt |-> None,
   forecast |-> "", previous |-> ""]

\* the interval job of main(): its trigger first fires one interval after the
\* job is created, and next_run_time=None adds the job paused
IntervalJob ==
  [id |-> <<"interval">>, func |-> "poll_and_schedule",
   run_date |-> now + POLL_INTERVAL_MIN, next_run_time |-> None,
   ev |-> NoEvent]

Due(j) == j.next_run_time # None /\ j.next_run_time <= now

\* ------------------------------------------------ schedule_notifications
\* one pass of the event loop; st is [ids, jobs, added, skipped, raised]
NotifyJob_AtEventTime(ev, notify_at) ==
  [id |-> ev.id, func |-> "notify", run_date |-> ev.event_dt,
   next_run_time |-> ev.event_dt, ev |-> ev]

NotifyJob(ev, notify_at) ==
  [id |-> ev.id, func |-> "notify", run_date |-> notify_at,
   next_run_time |-> notify_at, ev |-> ev]

AddJob_NoMark(st, ev, notify_at) ==
  IF started /\ \E j \in st.jobs : j.id = ev.id
  THEN [st EXCEPT !.raised = TRUE]
  ELSE [st EXCEPT
          !.jobs = @ \cup {NotifyJob(ev, notify_at)},
          !.added = @ \cup
             {[n |-> 1 + Cardinality({a \in st.added : a.id = ev.id}),
               id |-> ev.id, run_date |-> notify_at, ev |-> ev]}]

\* scheduler.add_job(notify, "date", ...) then SCHEDULED_IDS.add; a started
\* scheduler raises ConflictingIdError for an id its job store holds
AddJob(st, ev, notify_at) ==
  IF started /\ \E j \in st.jobs : j.id = ev.id
  THEN [st EXCEPT !.raised = TRUE]
  ELSE [st EXCEPT
          !.jobs = @ \cup {NotifyJob(ev, notify_at)},
          !.added = @ \cup
             {[n |-> 1 + Cardinality({a \in st.added : a.id = ev.id}),
               id |-> ev.id, run_date |-> notify_at, ev |-> ev]},
          !.ids = @ \cup {ev.id}]

ShouldSkipPast_Strict(notify_at, t) == notify_at < t

ShouldSkipPast(notify_at, t) == notify_at <= t

ShouldSkipDuplicate_Never(id, ids) == FALSE

ShouldSkipDuplicate(id, ids) == id \in ids

SkipPast_MarksSeen(st, ev, notify_at, t) ==
  [st EXCEPT !.skipped = @ \cup
                 {[id |-> ev.id, why |-> "past", boundary |-> notify_at = t]},
             !.ids = @ \cup {ev.id}]

SkipPast(st, ev, notify_at, t) ==
  [st EXCEPT !.skipped = @ \cup
     {[id |-> ev.id, why |-> "past", boundary |-> notify_at = t]}]

SkipDuplicate_Refreshes(st, ev) ==
  [st EXCEPT !.skipped = @ \cup
                 {[id |-> ev.id, why |-> "duplicate", boundary |-> FALSE]},
             !.jobs = {IF j.id = ev.id THEN [j EXCEPT !.ev = ev] ELSE j :
                         j \in @}]

SkipDuplicate(st, ev) ==
  [st EXCEPT !.skipped = @ \cup
     {[id |-> ev.id, why |-> "duplicate", boundary |-> FALSE]}]

EventStep(st, ev, t) ==
  LET notify_at == ev.event_dt - LEAD_MINUTES IN
  IF st.raised THEN st
  ELSE IF ShouldSkipPast(notify_at, t) THEN SkipPast(st, ev, notify_at, t)
  ELSE IF ShouldSkipDuplicate(ev.id, st.ids) THEN SkipDuplicate(st, ev)
  ELSE AddJob(st, ev, notify_at)

RECURSIVE EventLoop(_, _, _)
EventLoop(st, events, t) ==
  IF events = <<>> THEN st
  ELSE EventLoop(EventStep(st, Head(events), t), Tail(events), t)

schedule_notifications(events) ==
  EventLoop([ids |-> SCHEDULED_IDS, jobs |-> jobs, added |-> added,
             skipped |-> skipped, raised |-> FALSE], events, now)

\* ------------------------------------------------------ poll_and_schedule
Position(pc, last, events) == [pc |-> pc, last |-> last, events |-> events]

\* up to the await of asyncio.to_thread(fetch_events)
BeginPoll(p) ==
  /\ polls[p].pc = "idle"
  /\ polls' = [polls EXCEPT ![p] = Position("fetching", "none", <<>>)]
  /\ nPolls' = nPolls + 1

\* where main() is after its awaited poll_and_schedule() returns or raises
MainAfterPoll(p, raised) ==
  IF p = "main" /\ mainpc = "poll"
  THEN IF raised THEN "crashed" ELSE "add_job"
  ELSE mainpc

\* what fetch_events can return: the events of any listing the source serves
AnyResults ==
  [currencies \in CurrencyConfigs |->
     {RowLoop(currencies, [raised |-> FALSE, events |-> <<>>], listing) :
        listing \in Listings}]

Results ==
  IF pinned[1] = "any" THEN AnyResults[CURRENCIES]
  ELSE {fetch_events(pinned[2])}

\* the except branch of poll_and_schedule: log and return
PollExcept(p) ==
  /\ polls' = [polls EXCEPT ![p] = Position("idle", "failed", <<>>)]
  /\ mainpc' = MainAfterPoll(p, FALSE)

\* the fetch thread finishes with the events of a listing (one finished
\* fetch is handed to the event loop at a time)
FetchReturn(p) ==
  /\ polls[p].pc = "fetching"
  /\ \A q \in Coroutines : polls[q].pc # "fetched"
  /\ \E res \in Results :
       IF res.raised
       THEN PollExcept(p)
       ELSE /\ polls' = [polls EXCEPT
                           ![p] = Position("fetched", "none", res.events)]
            /\ UNCHANGED mainpc
  /\ UNCHANGED <<CURRENCIES, now, configured, started, SCHEDULED_IDS, jobs,
                 nPolls, added, skipped, calls, missed, pinned, parsed>>

PollFetchFailed_Resets(p) ==
  /\ polls[p].pc = "fetching"
  /\ PollExcept(p)
  /\ SCHEDULED_IDS' = {}
  /\ jobs' = {j \in jobs : j.func # "notify"}
  /\ UNCHANGED <<CURRENCIES, now, configured, started, nPolls, added, skipped,
                 calls, missed, pinned, parsed>>

\* requests.get / raise_for_status raises in the fetch thread; the coroutine
\* resumes in the except branch
PollFetchFailed(p) ==
  /\ polls[p].pc = "fetching"
  /\ PollExcept(p)
  /\ UNCHANGED <<CURRENCIES, now, configured, started, SCHEDULED_IDS, jobs,
                 nPolls, added, skipped, calls, missed, pinned, parsed>>

\* the coroutine resumes with the events and runs schedule_notifications
PollSchedule(p) ==
  /\ polls[p].pc = "fetched"
  /\ LET st == schedule_notifications(polls[p].events) IN
     /\ SCHEDULED_IDS' = st.ids
     /\ jobs' = st.jobs
     /\ added' = st.added
     /\ skipped' = st.skipped
     /\ polls' = [polls EXCEPT
                    ![p] = Position("idle",
                                    IF st.raised THEN "raised" ELSE "ok",
                                    <<>>)]
     /\ mainpc' = MainAfterPoll(p, st.raised)
  /\ UNCHANGED <<CURRENCIES, now, configured, started, nPolls, calls, missed,
                 pinned, parsed>>

\* ------------------------------------------------------------- the process
Startup_NoFirstPoll ==
  /\ mainpc = "boot"
  /\ mainpc' = IF configured THEN "add_job" ELSE "exited"
  /\ UNCHANGED <<CURRENCIES, now, configured, started, SCHEDULED_IDS, jobs,
                 polls, nPolls, added, skipped, calls, missed, pinned, parsed>>

\* module level: the check of API_TOKEN and CHAT_ID
Startup ==
  /\ mainpc = "boot"
  /\ mainpc' = IF configured THEN "main" ELSE "exited"
  /\ UNCHANGED <<CURRENCIES, now, configured, started, SCHEDULED_IDS, jobs,
                 polls, nPolls, added, skipped, calls, missed, pinned, parsed>>

\* main(): await poll_and_schedule()
MainPoll ==
  /\ mainpc = "main"
  /\ mainpc' = "poll"
  /\ BeginPoll("main")
  /\ UNCHANGED <<CURRENCIES, now, configured, started, SCHEDULED_IDS, jobs,
                 added, skipped, calls, missed, pinned, parsed>>

\* main(): scheduler.add_job(poll_and_schedule, "interval", ...,
\* next_run_time=None); a job added with next_run_time None is paused
MainAddJob ==
  /\ mainpc = "add_job"
  /\ mainpc' = "start"
  /\ jobs' = jobs \cup {IntervalJob}
  /\ UNCHANGED <<CURRENCIES, now, configured, started, SCHEDULED_IDS, polls,
                 nPolls, added, skipped, calls, missed, pinned, parsed>>

SchedulerStart_DropsPending(pcAfter) ==
  /\ ~started
  /\ mainpc' = pcAfter
  /\ started' = TRUE
  /\ jobs' = {}
  /\ UNCHANGED <<CURRENCIES, now, configured, SCHEDULED_IDS, polls, nPolls,
                 added, skipped, calls, missed, pinned, parsed>>

\* scheduler.start(): the pending jobs enter the job store, which rejects a
\* second job of the same id
SchedulerStart(pcAfter) ==
  /\ ~started
  /\ IF \E j1 \in jobs, j2 \in jobs : j1 # j2 /\ j1.id = j2.id
     THEN mainpc' = "crashed" /\ UNCHANGED started
     ELSE mainpc' = pcAfter /\ started' = TRUE
  /\ UNCHANGED <<CURRENCIES, now, configured, SCHEDULED_IDS, jobs, polls,
                 nPolls, added, skipped, calls, missed, pinned, parsed>>

\* main(): scheduler.start(), then the sleep loop
MainStart ==
  /\ mainpc = "start"
  /\ SchedulerStart("sleep")

\* --------------------------------------------------------- the event loop
AwaitPoints_FetchInline == {"idle", "fetched"}

\* the positions at which a poll coroutine has yielded to the event loop:
\* between calls, and for the whole fetch, which asyncio.to_thread runs in a
\* worker thread while the coroutine awaits it
AwaitPoints == {"idle", "fetching", "fetched"}

\* no coroutine is running on the event loop's thread
LoopFree == \A p \in Coroutines : polls[p].pc \in AwaitPoints

\* ------------------------------------------------------------ the scheduler
\* the clock; a started scheduler is woken by the event loop, when the loop
\* is free, as soon as a job becomes due, so no minute passes over a due job
Tick(limit) ==
  /\ now < limit
  /\ (started /\ LoopFree) => \A j \in jobs : ~Due(j)
  /\ now' = now + 1
  /\ UNCHANGED <<CURRENCIES, configured, mainpc, started, SCHEDULED_IDS, jobs,
                 polls, nPolls, added, skipped, calls, missed, pinned, parsed>>

Late_NoGrace(j) == now - j.next_run_time > 0

\* the misfire test of the scheduler, with misfire_grace_time=60
Late(j) == now - j.next_run_time > misfire_grace_time

Invocation(j, cs) ==
  [n |-> 1 + Cardinality({c \in cs : c.ev.id = j.id}),
   ev |-> j.ev, state |-> "sending"]

\* the scheduler's wakeup: every due job is run, or dropped when it is later
\* than its misfire grace; a date job is then removed, an interval job gets
\* its next run time
Wakeup ==
  /\ started
  /\ LoopFree
  /\ \E j \in jobs : Due(j)
  /\ LET due == {j \in jobs : Due(j)}
         dated == {j \in due : j.func = "notify"}
         timed == {j \in due : j.func = "poll_and_schedule"}
     IN
     /\ jobs' = (jobs \ due) \cup
                  {[j EXCEPT !.next_run_time = @ + POLL_INTERVAL_MIN] :
                     j \in timed}
     /\ missed' = missed \cup {j.id : j \in {d \in dated : Late(d)}}
     /\ calls' = calls \cup
                   {Invocation(j, calls) : j \in {d \in dated : ~Late(d)}}
     /\ IF timed # {} /\ polls["job"].pc = "idle"
        THEN BeginPoll("job")
        ELSE UNCHANGED <<polls, nPolls>>
  /\ UNCHANGED <<CURRENCIES, now, configured, mainpc, started, SCHEDULED_IDS,
                 added, skipped, pinned, parsed>>

\* ------------------------------------------------------------------ notify
\* bot.send_message returns
SendOk ==
  \E c \in calls :
    /\ c.state = "sending"
    /\ calls' = (calls \ {c}) \cup {[c EXCEPT !.state = "sent"]}
    /\ UNCHANGED <<CURRENCIES, now, configured, mainpc, started, SCHEDULED_IDS,
                   jobs, polls, nPolls, added, skipped, missed, pinned,
                   parsed>>

SendFail_Retries ==
  \E c \in calls :
    /\ c.state = "sending"
    /\ calls' = (calls \ {c}) \cup {[c EXCEPT !.state = "failed"]}
    /\ jobs' = jobs \cup {NotifyJob(c.ev, now + 1)}
    /\ UNCHANGED <<CURRENCIES, now, configured, mainpc, started, SCHEDULED_IDS,
                   polls, nPolls, added, skipped, missed, pinned, parsed>>

\* bot.send_message raises; notify catches and logs
SendFail ==
  \E c \in calls :
    /\ c.state = "sending"
    /\ calls' = (calls \ {c}) \cup {[c EXCEPT !.state = "failed"]}
    /\ UNCHANGED <<CURRENCIES, now, configured, mainpc, started, SCHEDULED_IDS,
                   jobs, polls, nPolls, added, skipped, missed, pinned,
                   parsed>>

\* ------------------------------------------------------- the specifications
InitCommon ==
  /\ CURRENCIES \in CurrencyConfigs
  /\ now = 0
  /\ started = FALSE
  /\ SCHEDULED_IDS = {}
  /\ jobs = {}
  /\ polls = [p \in Coroutines |-> Position("idle", "none", <<>>)]
  /\ nPolls = 0
  /\ added = {}
  /\ skipped = {}
  /\ calls = {}
  /\ missed = {}
  /\ parsed = [raised |-> FALSE, events |-> <<>>]

\* the process is followed past the first poll interval
Horizon == MaxTime + POLL_INTERVAL_MIN

Init ==
  /\ InitCommon
  /\ configured \in BOOLEAN
  /\ mainpc = "boot"
  /\ pinned = <<"any", <<>>>>

Next ==
  \/ Startup
  \/ MainPoll
  \/ FetchReturn("main")
  \/ PollFetchFailed("main")
  \/ PollSchedule("main")
  \/ MainAddJob
  \/ MainStart
  \/ Tick(Horizon)
  \/ Wakeup
  \/ SendOk
  \/ SendFail

Spec == Init /\ [][Next]_vars

FairSpec == Spec /\ WF_vars(Tick(Horizon)) /\ WF_vars(Wakeup)

\* poll_and_schedule() and scheduler.start() driven directly
CallPoll(p) ==
  /\ mainpc = "driver"
  /\ nPolls < MaxPolls
  /\ BeginPoll(p)
  /\ UNCHANGED <<CURRENCIES, now, configured, mainpc, started, SCHEDULED_IDS,
                 jobs, added, skipped, calls, missed, pinned, parsed>>

CallStart ==
  /\ mainpc = "driver"
  /\ SchedulerStart("driver")

CycleInit ==
  /\ InitCommon
  /\ configured = TRUE
  /\ mainpc = "driver"
  /\ pinned = <<"any", <<>>>>

CycleNext ==
  \/ CallPoll("main")
  \/ FetchReturn("main")
  \/ PollFetchFailed("main")
  \/ PollSchedule("main")
  \/ CallStart
  \/ Tick(MaxTime)
  \/ Wakeup
  \/ SendOk
  \/ SendFail

CycleSpec == CycleInit /\ [][CycleNext]_vars

FairCycleSpec ==
  CycleSpec /\ WF_vars(CallStart) /\ WF_vars(Tick(MaxTime)) /\ WF_vars(Wakeup)

\* the upstream listing is one listing for the whole run, no fetch fails
IdemInit ==
  /\ InitCommon
  /\ configured = TRUE
  /\ mainpc = "driver"
  /\ pinned \in {<<"only", listing>> : listing \in Listings}

IdemNext ==
  \/ CallPoll("main")
  \/ FetchReturn("main")
  \/ PollSchedule("main")
  \/ CallStart
  \/ Tick(MaxTime)
  \/ Wakeup
  \/ SendOk
  \/ SendFail

IdemSpec == IdemInit /\ [][IdemNext]_vars

\* fetch_events() on the response for one listing
FetchApply ==
  /\ mainpc = "fetch"
  /\ mainpc' = "fetched"
  /\ parsed' = fetch_events(pinned[2])
  /\ UNCHANGED <<CURRENCIES, now, configured, started, SCHEDULED_IDS, jobs,
                 polls, nPolls, added, skipped, calls, missed, pinned>>

FetchInit ==
  /\ InitCommon
  /\ configured = TRUE
  /\ mainpc = "fetch"
  /\ pinned \in {<<"only", listing>> : listing \in Listings}

FetchSpec == FetchInit /\ [][FetchApply]_vars

\* two poll_and_schedule() calls at once on one listing: the second is begun
\* while the first awaits its fetch
CallOverlapping ==
  /\ polls["main"].pc = "fetching"
  /\ CallPoll("job")

OverlapInit ==
  /\ InitCommon
  /\ configured = TRUE
  /\ mainpc = "driver"
  /\ pinned \in {<<"only", listing>> : listing \in Listings}

OverlapNext ==
  \/ CallPoll("main")
  \/ CallOverlapping
  \/ FetchReturn("main")
  \/ FetchReturn("job")
  \/ PollSchedule("main")
  \/ PollSchedule("job")
  \/ CallStart
  \/ Tick(MaxTime)
  \/ Wakeup
  \/ SendOk
  \/ SendFail

OverlapSpec == OverlapInit /\ [][OverlapNext]_vars

\* ------------------------------------------------------------------ claims
Registered(id) == {a \in added : a.id = id}

Invoked(id) == {c \in calls : c.ev.id = id}

\* C1: a notification task is registered at most once per event identity:
\* every add_job call is for an identity that was not in SCHEDULED_IDS before
\* the step and is the first registration of that identity.
C1_RegisteredOncePerIdentity ==
  [][\A a \in added' \ added : a.id \notin SCHEDULED_IDS /\ a.n = 1]_vars

\* an identity was re-observed while its task was pending and again after the
\* task had fired, and it still has its one registration
C1_Witness ==
  \E id \in SCHEDULED_IDS :
    /\ [id |-> id, why |-> "duplicate", boundary |-> FALSE] \in skipped
    /\ \E b \in BOOLEAN : [id |-> id, why |-> "past", boundary |-> b] \in skipped
    /\ Invoked(id) # {}
    /\ Cardinality(Registered(id)) = 1

\* C2: every task registered by a scheduling pass has its fire time strictly
\* after the "now" that pass read; an event with fire_at <= now, the boundary
\* fire_at = now included, registers nothing.
C2_RegisteredOnlyInFuture ==
  [][/\ \A a \in added' \ added : a.run_date > now
     /\ \A j \in jobs' \ jobs : j.func = "notify" => j.next_run_time > now]_vars

\* an event was observed exactly at its fire time and no task exists for it
C2_Witness ==
  \E s \in skipped :
    /\ s.why = "past"
    /\ s.boundary
    /\ Registered(s.id) = {}
    /\ \A j \in jobs : j.id # s.id

\* the Event Records a listing can yield
PossibleEvents == {EventOf(row) : row \in GoodRows}

FireAt(ev) == ev.event_dt - LEAD_MINUTES

Pending(ev) == \E j \in jobs : j.func = "notify" /\ j.ev = ev

OnTime(ev) ==
  \E j \in jobs : j.func = "notify" /\ j.ev = ev /\ now <= j.next_run_time

Notified(ev) == \E c \in calls : c.ev = ev

\* a scheduling pass of coroutine p: every fetched event that is in the future
\* and not in the index ends the pass with a job for its identity, set to its
\* fire time, carrying an event of that identity fetched in this cycle
RegistersObserved(p) ==
  (polls[p].pc = "fetched" /\ polls'[p].pc = "idle") =>
    \A i \in DOMAIN polls[p].events :
      LET ev == polls[p].events[i] IN
      (FireAt(ev) > now /\ ev.id \notin SCHEDULED_IDS) =>
        \E j \in jobs' :
          /\ j.func = "notify"
          /\ j.id = ev.id
          /\ j.next_run_time = FireAt(ev)
          /\ \E k \in DOMAIN polls[p].events :
               polls[p].events[k].id = ev.id /\ j.ev = polls[p].events[k]

\* a job leaves the scheduler only by being run: unless it is later than the
\* misfire grace, notify is invoked with the job's event
FiresWithPayload ==
  \A j \in jobs \ jobs' :
    (j.func = "notify" /\ ~Late(j)) => \E c \in calls' \ calls : c.ev = j.ev

\* C3: a poll cycle that observes a tracked event whose fire_at is in the
\* future and whose identity is not in the index ends with a task registered
\* for it, and when fire_at arrives notify is invoked with that event's data.
C3_ObservedEventIsNotified ==
  /\ [][RegistersObserved("main")]_vars
  /\ [][FiresWithPayload]_vars
  /\ \A ev \in PossibleEvents : (started /\ OnTime(ev)) ~> Notified(ev)

\* a task registered by a completed cycle has fired with the registered event
C3_Witness ==
  /\ polls["main"].last = "ok"
  /\ \E a \in added : \E c \in calls : c.ev = a.ev /\ a.run_date = FireAt(a.ev)

\* a poll cycle ends in the except branch
FetchFailureStep(p) == polls[p].pc = "fetching" /\ polls'[p].last = "failed"

\* C4: a poll cycle whose fetch fails leaves the Identity Index and the
\* pending tasks as they were, and every task pending at that point still
\* fires at its fire_at.
C4_FailedFetchChangesNothing ==
  /\ [][FetchFailureStep("main") =>
          UNCHANGED <<SCHEDULED_IDS, jobs, added, skipped, calls, missed>>]_vars
  /\ \A ev \in PossibleEvents :
       (polls["main"].last = "failed" /\ started /\ OnTime(ev)) ~> Notified(ev)

\* the last cycle failed while a task was pending, and the task is still there
C4_Witness ==
  /\ polls["main"].last = "failed"
  /\ started
  /\ \E ev \in PossibleEvents : OnTime(ev) /\ ev.id \in SCHEDULED_IDS

\* C5 (as claimed): once main() has started the scheduler, a new poll cycle
\* begins every poll interval; so when the clock is past the first run date
\* of the interval job, a second poll cycle has begun.
C5_PollsEveryInterval ==
  \A j \in jobs :
    (j.func = "poll_and_schedule" /\ started /\ now > j.run_date) => nPolls >= 2

\* the events of the pinned upstream listing
PinnedEvents ==
  LET evs == fetch_events(pinned[2]).events IN {evs[i] : i \in DOMAIN evs}

TwoCyclesDone == nPolls >= 2 /\ polls["main"].pc = "idle"

\* C6 (as claimed): two cycles in succession over an unchanged listing
\* register exactly one task for each event of the listing.
C6_EachEventExactlyOnce ==
  TwoCyclesDone =>
    \A ev \in PinnedEvents : Cardinality(Registered(ev.id)) = 1

\* C6 (amended): two cycles in succession over an unchanged listing register
\* at most one task for each event of the listing, and exactly one for each
\* event whose fire_at is still in the future.
C6_EachEventAtMostOnce ==
  TwoCyclesDone =>
    \A ev \in PinnedEvents :
      /\ Cardinality(Registered(ev.id)) <= 1
      /\ FireAt(ev) > now => Cardinality(Registered(ev.id)) = 1

\* the second cycle saw an event the first had registered and skipped it
C6_Witness ==
  /\ TwoCyclesDone
  /\ \E ev \in PinnedEvents :
       /\ Cardinality(Registered(ev.id)) = 1
       /\ [id |-> ev.id, why |-> "duplicate", boundary |-> FALSE] \in skipped

\* a send_message failure of invocation c
DeliveryFailureStep(c) ==
  c.state = "sending" /\ [c EXCEPT !.state = "failed"] \in calls'

\* C7: a delivery failure is caught inside notify: the invocation ends as
\* failed and stays so, nothing is retried or registered again, the process
\* and the poll coroutines go on, and the index and the other tasks are
\* untouched.
C7_DeliveryFailureIsLocal ==
  /\ [][\A c \in calls :
          DeliveryFailureStep(c) =>
            /\ calls' = (calls \ {c}) \cup {[c EXCEPT !.state = "failed"]}
            /\ UNCHANGED <<SCHEDULED_IDS, jobs, added, missed, polls, mainpc,
                           started>>]_vars
  /\ [][\A c \in calls :
          c.state = "failed" =>
            /\ c \in calls'
            /\ Cardinality({d \in calls' : d.ev.id = c.ev.id}) = 1
            /\ \A j \in jobs' : j.id # c.ev.id
            /\ Cardinality({a \in added' : a.id = c.ev.id}) = 1
            /\ mainpc' # "crashed"]_vars

\* one delivery failed while another task was pending
C7_Witness ==
  \E c \in calls :
    /\ c.state = "failed"
    /\ \E j \in jobs : j.func = "notify" /\ j.id # c.ev.id
    /\ mainpc = "driver"

FirstPassDone ==
  /\ nPolls >= 1
  /\ polls["main"].pc = "idle"
  /\ polls["main"].last \in {"ok", "failed"}

\* C8: main() performs one poll cycle first: the interval job is registered
\* and the scheduler started only after the first fetch-and-schedule pass has
\* completed, so before any interval wait.
C8_FirstPollBeforeInterval ==
  /\ mainpc \in {"add_job", "start", "sleep"} => FirstPassDone
  /\ \A j \in jobs : j.func = "poll_and_schedule" => FirstPassDone
  /\ started => FirstPassDone
  /\ mainpc \in {"boot", "main", "poll"} =>
       ~started /\ \A j \in jobs : j.func # "poll_and_schedule"

\* the scheduler runs, and the first pass had registered a task before that
C8_Witness ==
  /\ started
  /\ nPolls = 1
  /\ added # {}
  /\ \E j \in jobs : j.func = "poll_and_schedule"

\* C9 (as claimed): no runtime error ends the process, the only exit is the
\* startup check before any poll, and poll cycles keep occurring.
C9_OnlyStartupCheckStops ==
  /\ mainpc # "crashed"
  /\ mainpc = "exited" => ~configured /\ nPolls = 0
  /\ \A j \in jobs :
       (j.func = "poll_and_schedule" /\ started /\ now > j.run_date) =>
         nPolls >= 2

\* the four requirements of a row, stated on the row
MeetsAll(row) ==
  /\ row.impact
  /\ upper(row.currency) \in CURRENCIES
  /\ row.title # ""
  /\ parse_time_to_dt(row.time) # None

\* C10: fetch_events skips a row failing any requirement without raising and
\* returns one Event Record, in order, for every row meeting all four.
C10_BadRowsSkipped ==
  mainpc = "fetched" =>
    LET kept == SelectSeq(pinned[2], MeetsAll) IN
    /\ ~parsed.raised
    /\ parsed.events = [i \in DOMAIN kept |-> EventOf(kept[i])]

\* a listing with a failing row and a good row yielded the good row's record
C10_Witness ==
  /\ mainpc = "fetched"
  /\ \E i \in DOMAIN pinned[2], k \in DOMAIN pinned[2] :
       ~MeetsAll(pinned[2][i]) /\ MeetsAll(pinned[2][k])
  /\ Len(parsed.events) = 1
  /\ ~parsed.raised

\* C11: the Identity Index only grows: after every step it is a superset of
\* what it was before the step.
C11_IndexOnlyGrows == [][SCHEDULED_IDS \subseteq SCHEDULED_IDS']_vars

\* the index holds an identity after a fetch failure, a firing and a delivery
\* failure have all happened
C11_Witness ==
  /\ SCHEDULED_IDS # {}
  /\ polls["main"].last = "failed"
  /\ \E c \in calls : c.state = "failed" /\ c.ev.id \in SCHEDULED_IDS
  /\ \E s \in skipped : s.id \in SCHEDULED_IDS

Tracked(ev) == upper(ev.currency) \in CURRENCIES /\ ev.title # ""

\* C12: every event fetch_events returns, and so every task registered, has
\* a currency whose uppercased form is tracked and a non-empty title; with no
\* tracked currency nothing is ever registered.
C12_OnlyTrackedAndTitled ==
  /\ \A p \in Coroutines :
       \A i \in DOMAIN polls[p].events : Tracked(polls[p].events[i])
  /\ \A a \in added : Tracked(a.ev)
  /\ \A j \in jobs : j.func = "notify" => Tracked(j.ev)
  /\ CURRENCIES = {} => added = {} /\ jobs = {} /\ SCHEDULED_IDS = {}

\* with no tracked currency every poll allowed has run to its end, and
\* nothing was registered
C12_Witness ==
  /\ CURRENCIES = {}
  /\ nPolls = MaxPolls
  /\ polls["main"] = Position("idle", "ok", <<>>)
  /\ added = {}

\* C13: the identity is a function of (event instant, currency, title) alone:
\* two rows with the same instant, the same title and currency texts that
\* differ at most in letter case get the same identity, whatever else the
\* rows hold.
C13_IdentityFromInstantCurrencyTitle ==
  mainpc = "fetched" =>
    LET kept == SelectSeq(pinned[2], MeetsAll) IN
    /\ Len(parsed.events) = Len(kept)
    /\ \A i, k \in DOMAIN parsed.events :
         ( /\ parse_time_to_dt(kept[i].time) = parse_time_to_dt(kept[k].time)
           /\ upper(kept[i].currency) = upper(kept[k].currency)
           /\ kept[i].title = kept[k].title )
         => parsed.events[i].id = parsed.events[k].id

\* two rows whose currency texts differ in letter case were both kept and
\* got one identity
C13_Witness ==
  /\ mainpc = "fetched"
  /\ Len(pinned[2]) = 2
  /\ Len(parsed.events) = 2
  /\ pinned[2][1].currency # pinned[2][2].currency
  /\ parsed.events[1].id = parsed.events[2].id

\* C14: notify is invoked at most once per identity over the life of the
\* process: an identity that has been invoked has one invocation, no task
\* left, and stays in the index, whatever is observed before or after.
C14_NotifiedAtMostOnce ==
  \A c \in calls :
    /\ c.n = 1
    /\ Cardinality(Invoked(c.ev.id)) = 1
    /\ \A j \in jobs : j.id # c.ev.id
    /\ c.ev.id \in SCHEDULED_IDS

\* a delivered identity was observed again both while its task was pending
\* and after the task had fired, and has its one invocation
C14_Witness ==
  \E c \in calls :
    /\ c.state = "sent"
    /\ [id |-> c.ev.id, why |-> "duplicate", boundary |-> FALSE] \in skipped
    /\ \E b \in BOOLEAN :
         [id |-> c.ev.id, why |-> "past", boundary |-> b] \in skipped
    /\ Invoked(c.ev.id) = {c}

Fetching == \E p \in Coroutines : polls[p].pc = "fetching"

\* C15: the fetch runs off the event loop, so while a poll cycle is in its
\* fetch a pending task whose fire time arrives still fires on time: the
\* clock of a started scheduler does not pass a due task during a fetch, the
\* due task is invoked with its event during the fetch, and a task that is on
\* time while a fetch runs is invoked whether or not the fetch ever returns.
C15_FiresDuringFetch ==
  /\ [][(started /\ Fetching /\ now' # now) =>
          \A j \in jobs : j.func = "notify" => ~Due(j)]_vars
  /\ [][\A j \in jobs \ jobs' :
          (started /\ Fetching /\ j.func = "notify" /\ ~Late(j)) =>
            /\ Due(j)
            /\ \E c \in calls' \ calls : c.ev = j.ev /\ c.state = "sending"
            /\ UNCHANGED polls]_vars
  /\ \A ev \in PossibleEvents :
       (started /\ Fetching /\ OnTime(ev)) ~> Notified(ev)

\* a fetch is in progress and a task has just fired at its fire time
C15_Witness ==
  /\ started
  /\ polls["main"].pc = "fetching"
  /\ \E c \in calls :
       /\ c.state = "sending"
       /\ FireAt(c.ev) = now
       /\ \E a \in added : a.ev = c.ev /\ a.run_date = now

\* the registration that a task or an invocation with this identity and this
\* payload goes back to
RegisteredAs(id, ev) == \E a \in added : a.id = id /\ a.ev = ev

\* C16: the payload of a task is fixed when it is registered: a pending task
\* carries the event of its registration and is left as it is by every step
\* until it is taken out, also when the same identity is observed again with
\* another forecast, and the invocation carries the registered event.
C16_PayloadFixedAtRegistration ==
  /\ [](\A j \in jobs : j.func = "notify" => RegisteredAs(j.id, j.ev))
  /\ [](\A c \in calls : RegisteredAs(c.ev.id, c.ev))
  /\ [][\A j \in jobs :
          j.func = "notify" => j \in jobs' \/ \A k \in jobs' : k.id # j.id]_vars

\* the listing holds one identity with two forecasts, two polls have observed
\* both, and the invocation delivered the one that was registered
C16_Witness ==
  /\ nPolls >= 2
  /\ polls["main"] = Position("idle", "ok", <<>>)
  /\ \E c \in calls :
       /\ c.state = "sent"
       /\ \E ev \in PinnedEvents : ev.id = c.ev.id /\ ev.forecast # c.ev.forecast
       /\ RegisteredAs(c.ev.id, c.ev)
       /\ [id |-> c.ev.id, why |-> "duplicate", boundary |-> FALSE] \in skipped

\* C17: a task the scheduler reaches late still fires, with the payload of its
\* registration, when it is late by no more than the misfire grace of 60
\* seconds; a task later than that is dropped, and notify is never invoked
\* for it, then or afterwards.
C17_MisfireGrace ==
  /\ [][\A j \in jobs \ jobs' :
          j.func = "notify" =>
            IF now - j.next_run_time <= misfire_grace_time
            THEN /\ \E c \in calls' \ calls : c.ev = j.ev
                 /\ RegisteredAs(j.id, j.ev)
                 /\ j.id \notin missed'
            ELSE /\ j.id \in missed'
                 /\ Invoked(j.id) = {}
                 /\ \A c \in calls' : c.ev.id # j.id]_vars
  /\ [](\A id \in missed : Invoked(id) = {} /\ \A j \in jobs : j.id # id)

\* the scheduler started late: one wakeup dropped a task that was two minutes
\* late and invoked notify for the one that was one minute late
C17_Witness ==
  /\ started
  /\ missed # {}
  /\ \E c \in calls :
       /\ c.state = "sending"
       /\ now - FireAt(c.ev) = misfire_grace_time
       /\ c.ev.id \notin missed
       /\ RegisteredAs(c.ev.id, c.ev)

\* C18: at every reachable state the Identity Index is exactly the set of
\* identities a task has ever been registered for, and a step adds to it
\* exactly the identities it registers: an event skipped as past or as a
\* duplicate, and a cycle whose fetch failed, add nothing.
C18_IndexIsRegisteredSet ==
  /\ [](SCHEDULED_IDS = {a.id : a \in added})
  /\ [][SCHEDULED_IDS' \ SCHEDULED_IDS = {a.id : a \in added' \ added}]_vars

\* an event was skipped as past and a fetch failed, neither is in the index,
\* and the index holds what was registered
C18_Witness ==
  /\ polls["main"].last = "failed"
  /\ \E s \in skipped : s.why = "past" /\ s.id \notin SCHEDULED_IDS
  /\ SCHEDULED_IDS # {}
  /\ SCHEDULED_IDS = {a.id : a \in added}

\* the scheduling pass of coroutine p, which runs from its membership checks
\* to its last marking in one step
SchedulingStep(p) == polls[p].pc = "fetched" /\ polls'[p].pc = "idle"

\* C19: the membership check, the registration and the marking are one step,
\* so when two poll cycles overlap in their fetches and return the same
\* event exactly one task is registered for it: whichever pass runs, every
\* future event it was given ends the pass with exactly one registration and
\* at most one task, what a pass registers was not in the index before the
\* pass and is in it after, and no identity ever has two registrations.
C19_OverlappingCyclesRegisterOnce ==
  /\ [][\A p \in Coroutines :
          SchedulingStep(p) =>
            /\ \A i \in DOMAIN polls[p].events :
                 LET ev == polls[p].events[i] IN
                 FireAt(ev) > now =>
                   /\ ev.id \in SCHEDULED_IDS'
                   /\ Cardinality({a \in added' : a.id = ev.id}) = 1
                   /\ Cardinality({j \in jobs' : j.id = ev.id}) <= 1
            /\ \A a \in added' \ added :
                 a.id \notin SCHEDULED_IDS /\ a.id \in SCHEDULED_IDS']_vars
  /\ [](\A id \in SCHEDULED_IDS : Cardinality(Registered(id)) = 1)

\* the listing is one row, the second cycle began during the fetch of the
\* first, both cycles have scheduled, and the one event has one registration
\* and one skip as a duplicate
C19_Witness ==
  /\ Len(pinned[2]) = 1
  /\ nPolls = 2
  /\ polls["main"] = Position("idle", "ok", <<>>)
  /\ polls["job"] = Position("idle", "ok", <<>>)
  /\ \E ev \in PinnedEvents :
       /\ Cardinality(Registered(ev.id)) = 1
       /\ [id |-> ev.id, why |-> "duplicate", boundary |-> FALSE] \in skipped
       /\ Pending(ev)

\* C20: a task the first poll of main() registers before scheduler.start()
\* is not lost: the start takes every pending task into the running
\* scheduler as it is, a registered task is always pending, invoked or
\* dropped as misfired, and a task that is on time once the scheduler runs is
\* invoked, within the misfire grace of its fire time.
C20_RegisteredBeforeStartFires ==
  /\ [][(~started /\ started') => jobs' = jobs]_vars
  /\ [](\A a \in added :
          Pending(a.ev) \/ Notified(a.ev) \/ a.id \in missed)
  /\ [][\A c \in calls' \ calls :
          c.state = "sending" =>
            /\ RegisteredAs(c.ev.id, c.ev)
            /\ FireAt(c.ev) <= now
            /\ now - FireAt(c.ev) <= misfire_grace_time]_vars
  /\ \A ev \in PossibleEvents :
       (started /\ mainpc = "sleep" /\ OnTime(ev)) ~> Notified(ev)

\* main() is in its sleep loop and the task its first poll registered, before
\* the scheduler was started, has been delivered at its fire time
C20_Witness ==
  /\ mainpc = "sleep"
  /\ started
  /\ nPolls = 1
  /\ \E a \in added :
       \E c \in calls : c.ev = a.ev /\ c.state = "sent" /\ now = a.run_date

====
